---- MODULE Spec2Model ----
(***************************************************************************)
(* ZeroTouch port-strike demo: the workflow step sequencer and the human   *)
(* approval gate of the useZeroTouchWorkflow hook as the dashboard drives  *)
(* it, and the in-memory workflow store of the zerotouch-workflow edge     *)
(* function.                                                               *)
(*                                                                         *)
(* React state updates are applied in the order they are queued, so the    *)
(* model applies every setState at once; what a handler closes over (the   *)
(* pendingApproval of handleApproval, the isRunning that disables the      *)
(* buttons) is the value of the last render, kept in `rendered`.           *)
(* Numbers with a fraction are scaled: confidences are percents (0.89 is   *)
(* 89), humanLaborSaved and timeToResolution are tenths (18.7 is 187).     *)
(***************************************************************************)
EXTENDS Integers, Sequences, FiniteSets, TLC

\* ---- bounds of the model ----
\* sequencer loops (calls of startWorkflow, approving calls of handleApproval)
\* started in one behaviour
MaxThreads == 2
\* execute-step requests the workflow store serves at once
MaxRequests == 2
\* the clock stops after this many tenths of a minute
MaxNow == 3
\* agent tasks in one orchestration request
MaxTasks == 5
\* messages the chat model keeps track of
MaxMessages == 7

\* ---- mockData.ts ----
AgentIds == {"sentinel", "simulator", "negotiator", "executor", "audit"}

MOCK_AGENTS == [a \in AgentIds |-> [status |-> "idle", confidence |-> 0]]

\* a step table whose approval step is bound to the executor
WORKFLOW_STEPS_ApprovalByExecutor ==
  << [title |-> "Threat Detection",     agent |-> "sentinel",   tool |-> "analyze_satellite_imagery"],
     [title |-> "Impact Analysis",      agent |-> "simulator",  tool |-> "run_monte_carlo"],
     [title |-> "Contract Negotiation", agent |-> "negotiator", tool |-> "negotiate_terms"],
     [title |-> "Human Approval",       agent |-> "executor",   tool |-> "request_human_approval"],
     [title |-> "Execution",            agent |-> "executor",   tool |-> "reroute_shipments"],
     [title |-> "Audit & Compliance",   agent |-> "audit",      tool |-> "log_to_blockchain"] >>

WORKFLOW_STEPS ==
  << [title |-> "Threat Detection",     agent |-> "sentinel",   tool |-> "analyze_satellite_imagery"],
     [title |-> "Impact Analysis",      agent |-> "simulator",  tool |-> "run_monte_carlo"],
     [title |-> "Contract Negotiation", agent |-> "negotiator", tool |-> "negotiate_terms"],
     [title |-> "Human Approval",       agent |-> "negotiator", tool |-> "request_human_approval"],
     [title |-> "Execution",            agent |-> "executor",   tool |-> "reroute_shipments"],
     [title |-> "Audit & Compliance",   agent |-> "audit",      tool |-> "log_to_blockchain"] >>

\* WORKFLOW_STEPS.length
TotalSteps == Len(WORKFLOW_STEPS)

\* WORKFLOW_STEPS[i] of the code, whose indices start at 0
Step(i) == WORKFLOW_STEPS[i + 1]

\* ---- useZeroTouchWorkflow: values ----
ZeroMetrics ==
  [costSavings |-> 0, carbonReduction |-> 0, humanLaborSaved |-> 0, timeToResolution |-> 0]

\* a field the object does not have (undefined)
Undefined == -1

InitialState ==
  [ currentStep |-> 0,
    totalSteps  |-> TotalSteps,
    isRunning   |-> FALSE,
    startTime   |-> Undefined,
    endTime     |-> Undefined,
    agents      |-> MOCK_AGENTS,
    toolCalls   |-> << >>,
    ports       |-> "normal",
    metrics     |-> ZeroMetrics ]

\* pendingApproval === null
NULL == [status |-> "null", requestedBy |-> "none"]

NoResult == [kind |-> "none", confidence |-> Undefined]

\* a table that gives every result without a confidence the default 0.75
MockConfidenceDefaulted(toolName) ==
  CASE toolName = "analyze_satellite_imagery" -> 89
    [] toolName = "run_monte_carlo"           -> 87
    [] OTHER                                  -> 75

\* confidence field of getMockResultForTool(toolName); only two results have one
MockConfidence(toolName) ==
  CASE toolName = "analyze_satellite_imagery" -> 89
    [] toolName = "run_monte_carlo"           -> 87
    [] OTHER                                  -> Undefined

getMockResultForTool(toolName) ==
  [kind |-> "mock", confidence |-> MockConfidence(toolName)]

\* what supabase.functions.invoke('launch-io-agents') can settle with
InvokeOutcomes == {"result", "unstructured", "error", "thrown"}
\* result.confidence of a structured answer
ResultConfidences == {95}
\* analysis.recommendations[0].expected_savings (0: absent or falsy)
ExpectedSavings == {0, 3000000}

\* ---- zerotouch-workflow: values ----
\* indices of workflow.steps (five steps: the store has no approval step)
StepIndices == 0..4
\* step_index of a request: an index of workflow.steps, or one past them
RequestIndices == 0..5
\* no entry in activeWorkflows yet
NoWorkflow == [status |-> "none", current_step |-> 0, steps |-> [i \in StepIndices |-> "pending"]]
\* what the launch-io-agents response can be: success, success: false, or no JSON at all
AgentResults == {"success", "failure", "thrown"}

\* ---- useZeroTouchWorkflow: the async calls ----
\* a loop not started yet, and one that has returned
IdleThread == [pc |-> "none", i |-> 0, callId |-> 0]
DoneThread == [pc |-> "done", i |-> 0, callId |-> 0]
Threads == 1..MaxThreads

\* ---- launch-io-agents: values ----
\* task_id of an agent task
TaskIds == {1, 2}
\* request.agents: the agent tasks of a workflow request, possibly none
TaskLists == UNION {[1..n -> TaskIds] : n \in 0..MaxTasks}
\* executeAgentTask returns its response, or throws (fetch fails, status not ok,
\* body not JSON)
TaskOutcomes == {"completed", "thrown"}
\* no call of orchestrateWorkflow yet
IdleOrchestration ==
  [pc |-> "idle", agents |-> << >>, results |-> << >>, overall_success |-> FALSE]

\* ---- ZeroTouchChatbot: values ----
\* the text of the input: empty, blank, or a query
InputValues == {"", " ", "query"}
\* what supabase.functions.invoke settles with in sendMessage
ChatOutcomes == {"analysis", "error", "neither", "thrown"}
\* useState of the component, with the inputValue and isLoading of the last render
InitialChat ==
  [isOpen |-> FALSE, messages |-> << >>, inputValue |-> "", isLoading |-> FALSE,
   pending |-> FALSE, rendered |-> [inputValue |-> "", isLoading |-> FALSE]]

VARIABLES
  state,            \* useState<WorkflowState>
  pendingApproval,  \* useState<ApprovalRequest | null>
  timeoutRef,       \* timeoutRef.current: "undefined", "armed", or "spent" (fired or cleared)
  orphanTimers,     \* armed approval timers that timeoutRef.current no longer refers to
  threads,          \* the suspended async continuations of startWorkflow / handleApproval
  rendered,         \* isRunning and pendingApproval as of the last render
  toast,            \* title of the last toast
  workflow,         \* the entry of activeWorkflows (zerotouch-workflow)
  requests,         \* execute-step requests awaiting the agent's response
  now,              \* the clock (new Date(), Date.now()), in tenths of a minute
  orchestration,    \* the locals of a call of orchestrateWorkflow (launch-io-agents)
  chat              \* the state of ZeroTouchChatbot and its last render

vars == <<state, pendingApproval, timeoutRef, orphanTimers, threads, rendered, toast,
          workflow, requests, now, orchestration, chat>>

\* ---- useZeroTouchWorkflow: state updaters ----
updateAgent(s, agentId, updates) ==
  [s EXCEPT !.agents =
     [a \in AgentIds |-> IF a = agentId
                         THEN [status |-> updates.status,
                               confidence |-> IF "confidence" \in DOMAIN updates
                                              THEN updates.confidence
                                              ELSE s.agents[a].confidence]
                         ELSE s.agents[a]]]

addToolCall(s, toolCall) ==
  [s EXCEPT !.toolCalls = Append(s.toolCalls, toolCall)]

\* an update that forgets to compare the ids
updateToolCallEvery(s, id, result, status) ==
  [s EXCEPT !.toolCalls =
     [k \in 1..Len(s.toolCalls) |->
        [s.toolCalls[k] EXCEPT !.result = result, !.status = status]]]

updateToolCall(s, id, result, status) ==
  [s EXCEPT !.toolCalls =
     [k \in 1..Len(s.toolCalls) |->
        IF s.toolCalls[k].id = id
        THEN [s.toolCalls[k] EXCEPT !.result = result, !.status = status]
        ELSE s.toolCalls[k]]]

\* a || b of JavaScript on numbers
OrElse(a, b) == IF a = 0 \/ a = Undefined THEN b ELSE a

\* an id no entry of the log and no call in flight carries (the code's ids are unique)
UsedCallIds ==
  {state.toolCalls[k].id : k \in 1..Len(state.toolCalls)} \cup {threads[t].callId : t \in Threads}
FreshCallId ==
  CHOOSE n \in 1..(Len(state.toolCalls) + MaxThreads + 1) : n \notin UsedCallIds

FreeThreads == {t \in Threads : threads[t].pc = "none"}
NewThread == CHOOSE t \in FreeThreads : \A u \in FreeThreads : t <= u

\* ---- useZeroTouchWorkflow: executeStep up to its first await ----
\* executeStep(stepIndex) run by thread t on state s0 (the state after what the
\* caller queued before it), with pa0 / ref0 / orph0 the approval and timers the
\* caller leaves. The approval step opens the request, arms the timer and returns
\* (the loop of startWorkflow returns with it); any other step logs the call, sets
\* the agent processing and awaits the invocation.
executeStep(t, stepIndex, s0, pa0, ref0, orph0) ==
  LET step == Step(stepIndex)
      s1   == [s0 EXCEPT !.currentStep = stepIndex + 1]
  IN  /\ toast' = step.title
      /\ IF step.tool = "request_human_approval"
         THEN /\ pendingApproval' = [status |-> "pending", requestedBy |-> step.agent]
              /\ state' = updateAgent(s1, step.agent, [status |-> "waiting"])
              /\ timeoutRef' = "armed"
              /\ orphanTimers' = orph0 + (IF ref0 = "armed" THEN 1 ELSE 0)
              /\ threads' = [threads EXCEPT ![t] = DoneThread]
         ELSE /\ LET callId == FreshCallId
                     s2 == addToolCall(s1, [id |-> callId, agentId |-> step.agent,
                                            toolName |-> step.tool, status |-> "pending",
                                            result |-> NoResult])
                 IN  /\ state' = updateAgent(s2, step.agent, [status |-> "processing"])
                     /\ threads' = [threads EXCEPT
                                      ![t] = [pc |-> "awaitAgent", i |-> stepIndex, callId |-> callId]]
              /\ pendingApproval' = pa0
              /\ timeoutRef' = ref0
              /\ orphanTimers' = orph0

\* ---- useZeroTouchWorkflow: callLaunchIOAgent after the invocation settles ----
\* the state after the try block (a structured or an unstructured answer) or the
\* catch block (an error returned, or the call throwing)
callLaunchIOAgentSettle(s, callId, agentId, toolName, outcome, conf) ==
  IF outcome \in {"result", "unstructured"}
  THEN LET result == IF outcome = "result"
                     THEN [kind |-> "api", confidence |-> conf]
                     ELSE getMockResultForTool(toolName)
       IN  updateAgent(updateToolCall(s, callId, result, "success"), agentId,
                       [status |-> "success", confidence |-> OrElse(result.confidence, 85)])
  ELSE LET mockResult == getMockResultForTool(toolName)
       IN  updateAgent(updateToolCall(s, callId, mockResult, "success"), agentId,
                       [status |-> "success", confidence |-> OrElse(mockResult.confidence, 75)])

\* a metrics update bound to the wrong step indices
stepMetricsShifted(s, stepIndex) ==
  IF stepIndex = 2
  THEN [s EXCEPT !.metrics.costSavings = 2100000, !.metrics.carbonReduction = 42]
  ELSE IF stepIndex = 5
  THEN [s EXCEPT !.metrics.humanLaborSaved = 187]
  ELSE s

\* executeStep after the await: the metrics update bound to the step index
stepMetrics(s, stepIndex) ==
  IF stepIndex = 1
  THEN [s EXCEPT !.metrics.costSavings = 2100000, !.metrics.carbonReduction = 42]
  ELSE IF stepIndex = 4
  THEN [s EXCEPT !.metrics.humanLaborSaved = 187]
  ELSE s

\* a completion that leaves the run flag set
completeWorkflowStillRunning(s) ==
  [s EXCEPT !.endTime = now, !.metrics.timeToResolution = 42]

\* "Complete workflow" of startWorkflow and of handleApproval
completeWorkflow(s) ==
  [s EXCEPT !.isRunning = FALSE, !.endTime = now, !.metrics.timeToResolution = 42]

\* ---- the dashboard ----
Render ==
  /\ rendered # [isRunning |-> state.isRunning, pendingApproval |-> pendingApproval]
  /\ rendered' = [isRunning |-> state.isRunning, pendingApproval |-> pendingApproval]
  /\ UNCHANGED <<state, pendingApproval, timeoutRef, orphanTimers, threads, toast, workflow, requests, now, orchestration, chat>>

\* ---- useZeroTouchWorkflow: operations ----
\* Start button (enabled while the rendered isRunning is false): startWorkflow up
\* to the await of the zerotouch-workflow invocation
StartWorkflow ==
  /\ ~rendered.isRunning
  /\ FreeThreads # {}
  /\ state' = [state EXCEPT !.isRunning = TRUE, !.startTime = now, !.currentStep = 0,
                           !.toolCalls = << >>, !.agents = MOCK_AGENTS, !.ports = "strike"]
  /\ threads' = [threads EXCEPT ![NewThread] = [pc |-> "awaitWorkflow", i |-> 0, callId |-> 0]]
  /\ UNCHANGED <<pendingApproval, timeoutRef, orphanTimers, rendered, toast, workflow, requests, now, orchestration, chat>>

\* the zerotouch-workflow invocation settles: it resolves (data or error, both only
\* logged) and the analysis is requested, or it throws and the catch block toasts
\* and the step loop starts
WorkflowInvokeSettle(t, thrown) ==
  /\ threads[t].pc = "awaitWorkflow"
  /\ IF thrown
     THEN executeStep(t, 0, state, pendingApproval, timeoutRef, orphanTimers)
     ELSE /\ threads' = [threads EXCEPT ![t].pc = "awaitAnalysis"]
          /\ UNCHANGED <<state, pendingApproval, timeoutRef, orphanTimers, toast>>
  /\ UNCHANGED <<rendered, workflow, requests, now, orchestration, chat>>

\* the ai-crisis-analyzer invocation settles: with an analysis (the metrics are
\* set from it), with an error or no analysis, or by throwing; then the loop starts
AnalysisSettle(t, outcome, savings) ==
  /\ threads[t].pc = "awaitAnalysis"
  /\ LET s1 == IF outcome = "analysis"
               THEN [state EXCEPT !.metrics.costSavings = OrElse(savings, 0),
                                  !.metrics.carbonReduction = 42]
               ELSE state
     IN  executeStep(t, 0, s1, pendingApproval, timeoutRef, orphanTimers)
  /\ UNCHANGED <<rendered, workflow, requests, now, orchestration, chat>>

\* the launch-io-agents invocation of step threads[t].i settles; executeStep
\* finishes and the loop awaits the inter-step delay
InvokeSettle(t, outcome, conf) ==
  /\ threads[t].pc = "awaitAgent"
  /\ LET i    == threads[t].i
         step == Step(i)
         s1   == callLaunchIOAgentSettle(state, threads[t].callId, step.agent, step.tool,
                                         outcome, conf)
     IN  state' = stepMetrics(s1, i)
  /\ threads' = [threads EXCEPT ![t].pc = "awaitDelay", ![t].callId = 0]
  /\ UNCHANGED <<pendingApproval, timeoutRef, orphanTimers, rendered, toast, workflow, requests, now, orchestration, chat>>

\* the 1500 ms between steps elapse: the next step, or the completion of the run
DelayElapsed(t) ==
  /\ threads[t].pc = "awaitDelay"
  /\ IF threads[t].i + 1 < TotalSteps
     THEN executeStep(t, threads[t].i + 1, state, pendingApproval, timeoutRef, orphanTimers)
     ELSE /\ state' = completeWorkflow(state)
          /\ toast' = "Workflow Complete"
          /\ threads' = [threads EXCEPT ![t] = DoneThread]
          /\ UNCHANGED <<pendingApproval, timeoutRef, orphanTimers>>
  /\ UNCHANGED <<rendered, workflow, requests, now, orchestration, chat>>

\* a handler that forgets to clear the timer
leaveTimeout(ref) == ref

\* clearTimeout(timeoutRef.current)
clearTimeout(ref) == IF ref = "armed" THEN "spent" ELSE ref

\* Approve / Reject of the approval modal, shown while the rendered
\* pendingApproval is not null; handleApproval closes over that value
HandleApproval(approved) ==
  /\ rendered.pendingApproval # NULL
  /\ LET ref1 == clearTimeout(timeoutRef)
         s1   == updateAgent(state, rendered.pendingApproval.requestedBy,
                             [status |-> IF approved THEN "success" ELSE "error"])
     IN  IF approved
         THEN /\ FreeThreads # {}
              /\ executeStep(NewThread, 4, s1, NULL, ref1, orphanTimers)
         ELSE /\ toast' = "Approval Denied"
              /\ state' = [s1 EXCEPT !.isRunning = FALSE, !.endTime = now]
              /\ pendingApproval' = NULL
              /\ timeoutRef' = ref1
              /\ UNCHANGED <<orphanTimers, threads>>
  /\ UNCHANGED <<rendered, workflow, requests, now, orchestration, chat>>

\* the callback of an approval timer armed by executeStep fires
approvalTimeout(pa) == IF pa # NULL THEN [pa EXCEPT !.status = "timeout"] ELSE NULL

ApprovalTimeout(orphan) ==
  /\ IF orphan
     THEN orphanTimers > 0 /\ orphanTimers' = orphanTimers - 1 /\ timeoutRef' = timeoutRef
     ELSE timeoutRef = "armed" /\ timeoutRef' = "spent" /\ orphanTimers' = orphanTimers
  /\ pendingApproval' = approvalTimeout(pendingApproval)
  /\ state' = updateAgent(state, Step(3).agent, [status |-> "error"])
  /\ toast' = "Approval Timeout"
  /\ UNCHANGED <<threads, rendered, workflow, requests, now, orchestration, chat>>

\* Reset button (enabled while the rendered isRunning is false)
resetStateKeepingAgents == [InitialState EXCEPT !.agents = state.agents]

\* a reset that flips the run flag instead of clearing it
resetStateTogglingRun == [InitialState EXCEPT !.isRunning = ~state.isRunning]

\* the object resetWorkflow hands to setState
resetState == InitialState

ResetWorkflow ==
  /\ ~rendered.isRunning
  /\ timeoutRef' = clearTimeout(timeoutRef)
  /\ state' = resetState
  /\ pendingApproval' = NULL
  /\ UNCHANGED <<orphanTimers, threads, rendered, toast, workflow, requests, now, orchestration, chat>>

Init ==
  /\ state = InitialState
  /\ pendingApproval = NULL
  /\ timeoutRef = "undefined"
  /\ orphanTimers = 0
  /\ threads = [t \in Threads |-> IdleThread]
  /\ rendered = [isRunning |-> FALSE, pendingApproval |-> NULL]
  /\ toast = "none"
  /\ workflow = NoWorkflow
  /\ requests = [i \in StepIndices |-> 0]
  /\ now = 0
  /\ orchestration = IdleOrchestration
  /\ chat = InitialChat

Next ==
  \/ Render
  \/ StartWorkflow
  \/ \E t \in Threads, thrown \in BOOLEAN : WorkflowInvokeSettle(t, thrown)
  \/ \E t \in Threads, outcome \in {"analysis", "none", "thrown"}, savings \in ExpectedSavings :
       AnalysisSettle(t, outcome, savings)
  \/ \E t \in Threads, outcome \in InvokeOutcomes, conf \in ResultConfidences :
       InvokeSettle(t, outcome, conf)
  \/ \E t \in Threads : DelayElapsed(t)
  \/ \E approved \in BOOLEAN : HandleApproval(approved)
  \/ \E orphan \in BOOLEAN : ApprovalTimeout(orphan)
  \/ ResetWorkflow

Spec == Init /\ [][Next]_vars

\* ---- the happy path ----
\* the environment in which the run is started once, every invocation settles,
\* no timer fires before the decision and Approve is pressed while the request
\* is pending
HappyStart == StartWorkflow /\ \A t \in Threads : threads[t].pc = "none"

ApprovePending == HandleApproval(TRUE) /\ pendingApproval.status = "pending"

HappyNext ==
  \/ Render
  \/ HappyStart
  \/ \E t \in Threads, thrown \in BOOLEAN : WorkflowInvokeSettle(t, thrown)
  \/ \E t \in Threads, outcome \in {"analysis", "none", "thrown"}, savings \in ExpectedSavings :
       AnalysisSettle(t, outcome, savings)
  \/ \E t \in Threads, outcome \in InvokeOutcomes, conf \in ResultConfidences :
       InvokeSettle(t, outcome, conf)
  \/ \E t \in Threads : DelayElapsed(t)
  \/ ApprovePending

\* every awaited invocation settles, every setTimeout delay elapses, React
\* renders a changed state, and the user approves the request shown
HappyFairness ==
  /\ WF_vars(Render)
  /\ WF_vars(ApprovePending)
  /\ \A t \in Threads :
       /\ WF_vars(\E thrown \in BOOLEAN : WorkflowInvokeSettle(t, thrown))
       /\ WF_vars(\E outcome \in {"analysis", "none", "thrown"}, savings \in ExpectedSavings :
                    AnalysisSettle(t, outcome, savings))
       /\ WF_vars(\E outcome \in InvokeOutcomes, conf \in ResultConfidences :
                    InvokeSettle(t, outcome, conf))
       /\ WF_vars(DelayElapsed(t))

HappySpec == Init /\ [][HappyNext]_vars /\ HappyFairness

\* ---- the happy path with an invoker that may stay silent ----
\* callLaunchIOAgent awaits supabase.functions.invoke with no timeout and no
\* abort signal: nothing in the hook makes the await of a step's invocation
\* end, so its settlement is left without fairness
SilentInvokerFairness ==
  /\ WF_vars(Render)
  /\ WF_vars(ApprovePending)
  /\ \A t \in Threads :
       /\ WF_vars(\E thrown \in BOOLEAN : WorkflowInvokeSettle(t, thrown))
       /\ WF_vars(\E outcome \in {"analysis", "none", "thrown"}, savings \in ExpectedSavings :
                    AnalysisSettle(t, outcome, savings))
       /\ WF_vars(DelayElapsed(t))

SilentInvokerSpec == Init /\ [][HappyNext]_vars /\ SilentInvokerFairness

\* ---- the happy path with the clock running ----
\* a tenth of a minute goes by
Tick ==
  /\ now < MaxNow
  /\ now' = now + 1
  /\ UNCHANGED <<state, pendingApproval, timeoutRef, orphanTimers, threads, rendered, toast,
                 workflow, requests, orchestration, chat>>

ClockNext == HappyNext \/ Tick

ClockSpec == Init /\ [][ClockNext]_vars

\* ---- zerotouch-workflow: the workflow store ----
\* POST /start: a workflow with five pending steps is stored
BackendStartWorkflow ==
  /\ workflow.status = "none"
  /\ workflow' = [status |-> "active", current_step |-> 0,
                  steps |-> [i \in StepIndices |-> "pending"]]
  /\ UNCHANGED <<requests, state, pendingApproval, timeoutRef, orphanTimers, threads, rendered, toast, now, orchestration, chat>>

InFlight == requests[0] + requests[1] + requests[2] + requests[3] + requests[4]

\* POST /execute-step up to the await of the agent's response: an unknown workflow
\* or step index throws and changes nothing; otherwise the step is set processing
ExecuteWorkflowStep(step_index) ==
  /\ InFlight < MaxRequests
  /\ IF workflow.status = "none" \/ step_index \notin StepIndices
     THEN UNCHANGED <<workflow, requests>>
     ELSE /\ workflow' = [workflow EXCEPT !.steps[step_index] = "processing"]
          /\ requests' = [requests EXCEPT ![step_index] = @ + 1]
  /\ UNCHANGED <<state, pendingApproval, timeoutRef, orphanTimers, threads, rendered, toast, now, orchestration, chat>>

\* executeWorkflowStep after the await, on the agent's answer
executeSettle(w, step_index, agentResult) ==
  IF agentResult = "success"
  THEN LET w1 == [w EXCEPT !.steps[step_index] = "completed", !.current_step = step_index + 1]
       IN  IF w1.current_step >= Cardinality(StepIndices) THEN [w1 EXCEPT !.status = "completed"] ELSE w1
  ELSE IF agentResult = "failure"
  THEN [w EXCEPT !.steps[step_index] = "failed", !.status = "failed"]
  ELSE w

ExecuteWorkflowStepSettle(step_index, agentResult) ==
  /\ requests[step_index] > 0
  /\ requests' = [requests EXCEPT ![step_index] = @ - 1]
  /\ workflow' = executeSettle(workflow, step_index, agentResult)
  /\ UNCHANGED <<state, pendingApproval, timeoutRef, orphanTimers, threads, rendered, toast, now, orchestration, chat>>

BackendNext ==
  \/ BackendStartWorkflow
  \/ \E step_index \in RequestIndices : ExecuteWorkflowStep(step_index)
  \/ \E step_index \in StepIndices, agentResult \in AgentResults :
       ExecuteWorkflowStepSettle(step_index, agentResult)

BackendSpec == Init /\ [][BackendNext]_vars

\* ---- launch-io-agents: orchestrateWorkflow ----
orchVars == <<state, pendingApproval, timeoutRef, orphanTimers, threads, rendered, toast,
              workflow, requests, now, chat>>

\* results.filter(r => r.success).length
successfulTasks(results) == Cardinality({k \in 1..Len(results) : results[k].success})

\* successRate >= 0.8 with successRate = successfulTasks / results.length: for no
\* result the quotient is NaN, and NaN >= 0.8 is false
overallSuccess(results) ==
  IF Len(results) = 0
  THEN FALSE
  ELSE 10 * successfulTasks(results) >= 8 * Len(results)

\* the for loop goes to its next task, or the response is built
orchContinue(o) ==
  IF Len(o.results) < Len(o.agents)
  THEN [o EXCEPT !.pc = "awaitTask"]
  ELSE [o EXCEPT !.pc = "responded", !.overall_success = overallSuccess(o.results)]

\* POST /workflow: orchestrateWorkflow up to its first await
OrchestrateWorkflow(agents) ==
  /\ orchestration.pc \in {"idle", "responded"}
  /\ orchestration' = orchContinue([pc |-> "idle", agents |-> agents, results |-> << >>,
                                    overall_success |-> FALSE])
  /\ UNCHANGED orchVars

\* executeAgentTask of the current task settles: its response is pushed and the
\* loop awaits one second, or it throws and the catch block pushes a failed
\* result and the loop goes on
AgentTaskSettle(outcome) ==
  /\ orchestration.pc = "awaitTask"
  /\ LET agentTask == orchestration.agents[Len(orchestration.results) + 1]
     IN  IF outcome = "completed"
         THEN orchestration' =
                [orchestration EXCEPT !.results = Append(@, [success |-> TRUE, task_id |-> agentTask]),
                                      !.pc = "awaitDelay"]
         ELSE orchestration' =
                orchContinue([orchestration EXCEPT
                                !.results = Append(@, [success |-> FALSE, task_id |-> agentTask])])
  /\ UNCHANGED orchVars

\* the delay between agent executions elapses
OrchestrateDelay ==
  /\ orchestration.pc = "awaitDelay"
  /\ orchestration' = orchContinue(orchestration)
  /\ UNCHANGED orchVars

OrchestrateNext ==
  \/ \E agents \in TaskLists : OrchestrateWorkflow(agents)
  \/ \E outcome \in TaskOutcomes : AgentTaskSettle(outcome)
  \/ OrchestrateDelay

OrchestrateSpec == Init /\ [][OrchestrateNext]_vars

\* ---- ZeroTouchChatbot ----
chatVars == <<state, pendingApproval, timeoutRef, orphanTimers, threads, rendered, toast,
              workflow, requests, now, orchestration>>

\* String.prototype.trim on the input values
trim(v) == IF v = " " THEN "" ELSE v

\* the view the handlers of the last render closed over
chatView(c) == [inputValue |-> c.inputValue, isLoading |-> c.isLoading]

\* a reply is lost when the invocation throws
chatReplyLostOnThrow(outcome) ==
  CASE outcome = "analysis" -> <<[type |-> "agent", content |-> "analysis"]>>
    [] outcome = "error"    -> <<[type |-> "agent", content |-> "fallback"]>>
    [] outcome = "thrown"   -> << >>
    [] OTHER                -> <<[type |-> "agent", content |-> "analyzing"]>>

\* the agent message sendMessage appends once the invocation has settled: the
\* analysis of the result, the fallback response on an error or on a throw,
\* and the default text when the answer has neither an analysis nor an error
chatReply(outcome) ==
  CASE outcome = "analysis" -> <<[type |-> "agent", content |-> "analysis"]>>
    [] outcome = "error"    -> <<[type |-> "agent", content |-> "fallback"]>>
    [] outcome = "thrown"   -> <<[type |-> "agent", content |-> "fallback"]>>
    [] OTHER                -> <<[type |-> "agent", content |-> "analyzing"]>>

\* the chat button: the panel opens and the effect adds the welcome message to
\* an empty conversation
ChatOpen ==
  /\ ~chat.isOpen
  /\ chat' = [chat EXCEPT !.isOpen = TRUE,
                          !.messages = IF Len(@) = 0
                                       THEN <<[type |-> "agent", content |-> "welcome"]>>
                                       ELSE @,
                          !.rendered = chatView(chat)]
  /\ UNCHANGED chatVars

ChatClose ==
  /\ chat.isOpen
  /\ chat' = [chat EXCEPT !.isOpen = FALSE, !.rendered = chatView(chat)]
  /\ UNCHANGED chatVars

\* typing or a quick action: the controls are disabled while the view is loading
ChatType(v) ==
  /\ chat.isOpen
  /\ ~chat.rendered.isLoading
  /\ chat' = [chat EXCEPT !.inputValue = v,
                          !.rendered = [inputValue |-> v, isLoading |-> chat.isLoading]]
  /\ UNCHANGED chatVars

\* sendMessage up to its await
SendMessage ==
  /\ chat.isOpen
  /\ IF trim(chat.rendered.inputValue) = "" \/ chat.rendered.isLoading
     THEN chat' = chat
     ELSE /\ Len(chat.messages) + 2 <= MaxMessages
          /\ chat' = [chat EXCEPT
                        !.messages = Append(@, [type |-> "user", content |-> chat.rendered.inputValue]),
                        !.inputValue = "",
                        !.isLoading = TRUE,
                        !.pending = TRUE,
                        !.rendered = [inputValue |-> "", isLoading |-> TRUE]]
  /\ UNCHANGED chatVars

\* the invocation settles: sendMessage from its await to its end
ChatSettle(outcome) ==
  /\ chat.pending
  /\ chat' = [chat EXCEPT !.messages = @ \o chatReply(outcome),
                          !.isLoading = FALSE,
                          !.pending = FALSE]
  /\ UNCHANGED chatVars

\* the component re-renders after the updates of a settled invocation
ChatRender ==
  /\ chat.rendered # chatView(chat)
  /\ chat' = [chat EXCEPT !.rendered = chatView(chat)]
  /\ UNCHANGED chatVars

ChatNext ==
  \/ ChatOpen
  \/ ChatClose
  \/ \E v \in InputValues : ChatType(v)
  \/ SendMessage
  \/ \E outcome \in ChatOutcomes : ChatSettle(outcome)
  \/ ChatRender

\* the promise of the invocation settles, and React renders scheduled updates
ChatFairness ==
  /\ WF_vars(\E outcome \in ChatOutcomes : ChatSettle(outcome))
  /\ WF_vars(ChatRender)

ChatSpec == Init /\ [][ChatNext]_vars /\ ChatFairness

\* ---- properties ----
Decided == \E approved \in BOOLEAN : HandleApproval(approved)
TimerFired == \E orphan \in BOOLEAN : ApprovalTimeout(orphan)
Negotiator == Step(3).agent

\* the last entry of the log after a step that appended one
Appended == Len(state'.toolCalls) = Len(state.toolCalls) + 1
AppendedTool == state'.toolCalls[Len(state'.toolCalls)].toolName

\* C1: an ApprovalRequest is resolved exactly once: a decide call or a timer firing
\* that finds no pending request (none, or one already resolved) changes neither the
\* request, the agents, the tool-call log nor whether the run is running.
C1_ExactlyOnceResolution ==
  [][ ((Decided \/ TimerFired) /\ pendingApproval.status # "pending")
        => /\ pendingApproval' = pendingApproval
           /\ state'.agents = state.agents
           /\ state'.toolCalls = state.toolCalls
           /\ state'.isRunning = state.isRunning ]_vars

\* C2: once the approval timer has fired, a decide call is a no-op: the request
\* stays in status timeout, the negotiator stays in error, no step is executed.
C2_DecideAfterTimeoutIsNoOp ==
  [][ (Decided /\ pendingApproval.status = "timeout")
        => /\ pendingApproval'.status = "timeout"
           /\ state'.agents[Negotiator].status = "error"
           /\ state'.currentStep = state.currentStep
           /\ ~Appended ]_vars

\* C3: when the timer of a pending request fires, the request is in status timeout,
\* the negotiator is in error and the run is no longer running.
C3_TimeoutFailsRun ==
  [][ (TimerFired /\ pendingApproval.status = "pending")
        => /\ pendingApproval'.status = "timeout"
           /\ state'.agents[Negotiator].status = "error"
           /\ ~state'.isRunning ]_vars

\* C4: a step after the approval step is started only through an approved decision:
\* the tool call of reroute_shipments is created only by a decide(true) that resolves
\* a pending request, the one of log_to_blockchain only after that of reroute_shipments.
C4_ApprovalSuspendsSequencer ==
  [][ /\ (Appended /\ AppendedTool = Step(4).tool)
           => (HandleApproval(TRUE) /\ pendingApproval.status = "pending")
      /\ (Appended /\ AppendedTool = Step(5).tool)
           => \E k \in 1..Len(state.toolCalls) : state.toolCalls[k].toolName = Step(4).tool ]_vars

\* C5: steps run in index order: a step of the workflow store becomes processing
\* only when every step before it is completed.
C5_StepsInIndexOrder ==
  [][ \A i \in StepIndices :
        (workflow'.steps[i] = "processing" /\ workflow.steps[i] # "processing")
          => \A j \in StepIndices : j < i => workflow.steps[j] = "completed" ]_vars

\* C6: at most one step is in progress: at most one agent is processing and at
\* most one tool call is pending.
C6_OneStepInProgress ==
  /\ Cardinality({a \in AgentIds : state.agents[a].status = "processing"}) <= 1
  /\ Cardinality({k \in 1..Len(state.toolCalls) : state.toolCalls[k].status = "pending"}) <= 1

\* C7: a failing agent invocation of a step (an error answer or an exception) still
\* completes the step and leaves the run as it was, so that the next step can run.
C7_FailureCompletesStep ==
  [][ \A i \in StepIndices :
        (\E r \in {"failure", "thrown"} : ExecuteWorkflowStepSettle(i, r))
          => /\ workflow'.steps[i] = "completed"
             /\ workflow'.status = workflow.status ]_vars

\* the hook, for comparison with the workflow store: callLaunchIOAgent turns a failed
\* invocation into the fallback result, a successful tool call and a successful agent,
\* and leaves isRunning alone
HookFallbackOnFailure ==
  [][ \A t \in Threads :
        (\E r \in {"error", "thrown"}, c \in ResultConfidences : InvokeSettle(t, r, c))
          => LET step == Step(threads[t].i)
             IN  /\ state'.agents[step.agent].status = "success"
                 /\ state'.isRunning = state.isRunning
                 /\ threads'[t].pc = "awaitDelay"
                 /\ \A k \in 1..Len(state'.toolCalls) :
                      state.toolCalls[k].id = threads[t].callId
                        => /\ state'.toolCalls[k].status = "success"
                           /\ state'.toolCalls[k].result = getMockResultForTool(step.tool) ]_vars

\* C8: a run fails only by a rejection or an approval timeout: no settling
\* invocation puts a run that has not failed into the failed state.
C8_OnlyRejectionOrTimeoutFails ==
  [][ (\E i \in StepIndices, r \in AgentResults : ExecuteWorkflowStepSettle(i, r))
        => (workflow'.status = "failed" => workflow.status = "failed") ]_vars

\* the state reset() promises
IdleState ==
  /\ ~state.isRunning
  /\ state.currentStep = 0
  /\ state.toolCalls = << >>
  /\ pendingApproval = NULL
  /\ \A a \in AgentIds : state.agents[a] = [status |-> "idle", confidence |-> 0]
  /\ state.metrics = ZeroMetrics

\* C9: reset() in any state yields at once: not running, currentStep 0, no tool
\* calls, no ApprovalRequest, every agent idle with confidence 0, every metric 0.
C9_ResetYieldsIdle == [][ResetWorkflow => IdleState']_vars

\* reset() has acted on a run whose step invocation is still in flight
C9_Witness ==
  /\ IdleState
  /\ state.startTime = Undefined
  /\ \E t \in Threads : threads[t].pc = "awaitAgent" /\ threads[t].i >= 1

\* C10: after reset() the state stays the idle state until start() is called again.
C10_IdleUntilStart == [][ (IdleState /\ ~state'.isRunning) => IdleState' ]_vars

\* the ids of the entries of the tool-call log
LoggedIds == {state.toolCalls[k].id : k \in 1..Len(state.toolCalls)}

\* thread t awaits an invocation whose log entry a resetWorkflow or a later
\* startWorkflow has removed since the call was issued
StaleCall(t) == threads[t].pc = "awaitAgent" /\ threads[t].callId \notin LoggedIds

\* C11: the response of an invocation issued before a reset (or a restart) that
\* arrives afterwards is discarded: it changes no agent status or confidence, no
\* tool call, no metric and not the step position.
C11_StaleResponseDiscarded ==
  [][ \A t \in Threads :
        (StaleCall(t) /\ \E outcome \in InvokeOutcomes, conf \in ResultConfidences :
                           InvokeSettle(t, outcome, conf))
        => /\ state'.agents = state.agents
           /\ state'.toolCalls = state.toolCalls
           /\ state'.metrics = state.metrics
           /\ state'.currentStep = state.currentStep ]_vars

\* C12: a resetWorkflow applied to the state a resetWorkflow has just produced
\* changes nothing: the run status, the step position, the agents, the tool
\* calls, the approval request, the metrics, the ports and the timer after two
\* resets in a row are those after one.
C12_ResetIdempotent ==
  [][ ResetWorkflow => /\ resetState' = state'
                       /\ pendingApproval' = NULL
                       /\ clearTimeout(timeoutRef') = timeoutRef' ]_vars

\* a reset has been applied after a run went through its approval (the state is
\* the reset one, a sequencer loop has ended, the timer has been cleared) and the
\* Reset button is enabled for a second reset
C12_Witness ==
  /\ state = InitialState
  /\ pendingApproval = NULL
  /\ timeoutRef = "spent"
  /\ ~rendered.isRunning
  /\ \E t \in Threads : threads[t].pc = "done"

\* what handleApproval(true) does besides settling the request: the timer is
\* cancelled, the negotiator is set to success and step 4 (the step after the
\* approval step) is started
ApproveResumes ==
  /\ timeoutRef' # "armed"
  /\ state'.agents[Negotiator].status = "success"
  /\ state'.currentStep = 5
  /\ Appended /\ AppendedTool = Step(4).tool

\* the loop resumed by the approval goes on in order: after step 4 comes step 5,
\* after step 5 the run is completed
ResumedLoopInOrder ==
  \A t \in Threads :
    DelayElapsed(t) =>
      /\ threads[t].i = 4 => (state'.currentStep = 6 /\ Appended /\ AppendedTool = Step(5).tool)
      /\ threads[t].i = 5 => /\ ~state'.isRunning
                             /\ toast' = "Workflow Complete"
                             /\ state'.metrics.timeToResolution > 0
                             /\ threads'[t].pc = "done"

\* C13: decide(true) on a pending request cancels the timer, sets the request's
\* status to approved and the negotiator to success, and resumes the sequencer at
\* the step after the approval step; the remaining steps run in order and the run
\* ends completed.
C13_ApproveSetsApproved ==
  [][ /\ ApprovePending => (pendingApproval'.status = "approved" /\ ApproveResumes)
      /\ ResumedLoopInOrder ]_vars

\* C13 (amended): as above, except that the request is not marked approved: it
\* is cleared (pendingApproval becomes null) as soon as the decision is taken.
C13_ApproveClearsAndResumes ==
  [][ /\ ApprovePending => (pendingApproval' = NULL /\ ApproveResumes)
      /\ ResumedLoopInOrder ]_vars

\* the approval of a pending request has just resumed the run at step 4
C13_Witness ==
  /\ pendingApproval = NULL
  /\ timeoutRef = "spent"
  /\ state.agents[Negotiator].status = "success"
  /\ state.currentStep = 5
  /\ state.isRunning
  /\ \E t \in Threads : threads[t].pc = "awaitAgent" /\ threads[t].i = 4

\* Reject pressed while the request is pending
RejectPending == HandleApproval(FALSE) /\ pendingApproval.status = "pending"

\* the run has ended by a rejection and nothing has been toasted since
Rejected == ~state.isRunning /\ toast = "Approval Denied"

\* C14: decide(false) on a pending request cancels the timer, settles the request
\* as rejected, sets the negotiator to error and ends the run as failed; from
\* then on, until the next start, the run is not running, executor and audit
\* stay idle and the tool-call log does not grow. (handleApproval clears the
\* request on every decision; the cleared request is taken here as the rejected
\* one, so that the formula is about the terminal state.)
C14_RejectionIsTerminal ==
  [][ /\ RejectPending => /\ timeoutRef' # "armed"
                          /\ pendingApproval'.status \in {"rejected", "null"}
                          /\ state'.agents[Negotiator].status = "error"
                          /\ ~state'.isRunning
      /\ (Rejected /\ ~StartWorkflow) => /\ ~state'.isRunning
                                         /\ state'.agents["executor"].status = "idle"
                                         /\ state'.agents["audit"].status = "idle"
                                         /\ Len(state'.toolCalls) <= Len(state.toolCalls) ]_vars

\* the run is completed: not running, past the last step, every invocation
\* logged as a success, every agent at success, a positive time to resolution
Completed ==
  /\ ~state.isRunning
  /\ state.currentStep = TotalSteps
  /\ Len(state.toolCalls) = TotalSteps - 1
  /\ \A k \in 1..Len(state.toolCalls) : state.toolCalls[k].status = "success"
  /\ \A a \in AgentIds : state.agents[a].status = "success"
  /\ state.metrics.timeToResolution > 0

\* C15: on the happy path (every invocation settles, Approve is pressed while
\* the request is pending) a started run eventually reaches the completed state
\* with all six steps done, all five agents at success and timeToResolution > 0.
C15_HappyPathCompletes == state.isRunning ~> Completed

\* the completed run, as the completion block of handleApproval leaves it
C15_Witness == Completed /\ toast = "Workflow Complete" /\ state.endTime # Undefined

\* C16: start() from the idle or a terminal state sets the run running, resets
\* the five agents to idle with confidence 0, empties the tool-call log, clears
\* the ApprovalRequest left by the previous run and begins at step 0.
C16_StartClearsPreviousRun ==
  [][ (StartWorkflow /\ ~state.isRunning)
      => /\ state'.isRunning
         /\ state'.agents = MOCK_AGENTS
         /\ state'.toolCalls = << >>
         /\ pendingApproval' = NULL
         /\ state'.currentStep = 0 ]_vars

\* C17: start() takes effect only when the run is idle or terminal: a start
\* issued while the run is running (also a second one before the first one's
\* running flag is observed) begins no second sequencer and changes nothing.
C17_StartOnlyWhenNotRunning ==
  [][ (StartWorkflow /\ state.isRunning) => (threads' = threads /\ state' = state) ]_vars

\* the loop of thread t reaches the approval step
OpenApproval(t) == DelayElapsed(t) /\ threads[t].i = 2

\* C18: at most one ApprovalRequest is pending: opening one while one is
\* pending is refused and leaves the existing request, its timer and the agents
\* as they are (the request is not overwritten, no timer is orphaned).
C18_OpenWhilePendingRefused ==
  [][ \A t \in Threads :
        (OpenApproval(t) /\ pendingApproval.status = "pending")
        => /\ pendingApproval' = pendingApproval
           /\ timeoutRef' = timeoutRef
           /\ orphanTimers' = orphanTimers
           /\ state'.agents = state.agents ]_vars

\* C19: within a run (from startWorkflow until the run ends) no metric ever
\* decreases, whatever the crisis analysis and the steps return.
C19_MetricsMonotone ==
  [][ (state.isRunning /\ state'.isRunning)
      => /\ state'.metrics.costSavings >= state.metrics.costSavings
         /\ state'.metrics.carbonReduction >= state.metrics.carbonReduction
         /\ state'.metrics.humanLaborSaved >= state.metrics.humanLaborSaved
         /\ state'.metrics.timeToResolution >= state.metrics.timeToResolution ]_vars

\* the entries of the log stay where they are, an entry that is no longer
\* pending stays as it is, and at most one entry is appended
LogKept ==
  /\ Len(state'.toolCalls) \in {Len(state.toolCalls), Len(state.toolCalls) + 1}
  /\ \A k \in 1..Len(state.toolCalls) :
       /\ state'.toolCalls[k].id = state.toolCalls[k].id
       /\ state'.toolCalls[k].agentId = state.toolCalls[k].agentId
       /\ state'.toolCalls[k].toolName = state.toolCalls[k].toolName
       /\ state.toolCalls[k].status # "pending" => state'.toolCalls[k] = state.toolCalls[k]

\* thread t issues an invocation in this step
Invokes(t) == threads'[t].pc = "awaitAgent" /\ threads[t].pc # "awaitAgent"

\* an entry is appended exactly when an invocation is issued; it is pending and
\* carries the id of that one invocation
OneEntryPerCall ==
  /\ (\E t \in Threads : Invokes(t)) <=> Appended
  /\ Appended =>
       LET last == state'.toolCalls[Len(state'.toolCalls)]
       IN  /\ last.status = "pending"
           /\ last.id \notin LoggedIds
           /\ Cardinality({t \in Threads : Invokes(t) /\ threads'[t].callId = last.id}) = 1

\* C20: within a run (every step but startWorkflow and resetWorkflow, which
\* begin a new log) the tool-call log is append-only: one entry per invocation,
\* no entry removed or reordered, no entry modified once it has left pending.
C20_LogAppendOnly ==
  [][ (StartWorkflow \/ ResetWorkflow) \/ (LogKept /\ OneEntryPerCall) ]_vars

\* a settled entry followed by a pending one whose invocation is in flight
C20_Witness ==
  /\ Len(state.toolCalls) >= 2
  /\ state.toolCalls[1].status = "success"
  /\ state.toolCalls[2].status = "pending"
  /\ \E t \in Threads : threads[t].pc = "awaitAgent" /\ threads[t].callId = state.toolCalls[2].id

\* the completion block of a step loop runs in this step
Completes == \E t \in Threads : DelayElapsed(t) /\ threads[t].i + 1 = TotalSteps

\* a run is in progress: a request awaits its decision, or a step is executing
InProgress ==
  \/ pendingApproval.status = "pending"
  \/ \E a \in AgentIds : state.agents[a].status = "processing"

\* C21: the run status follows idle -> running -> {completed, failed}: the run
\* is completed (the completion block) or failed (a rejection) only from
\* running, and a run that waits for approval or executes a step is running.
C21_RunStatusMachine ==
  [][ /\ Completes => state.isRunning
      /\ HandleApproval(FALSE) => state.isRunning
      /\ InProgress' => state'.isRunning ]_vars

\* C22: the hook never waits for ever on a step's invocation: if the invoker
\* does not respond, the call is failed after a bounded wait, the fallback is
\* substituted and the step completes, so every awaited invocation is
\* eventually over.
C22_InvocationBounded ==
  \A t \in Threads : (threads[t].pc = "awaitAgent") ~> (threads[t].pc # "awaitAgent")

\* the approval timers that are armed
ArmedTimers == orphanTimers + (IF timeoutRef = "armed" THEN 1 ELSE 0)

\* C23: when a step loop reaches the approval step it creates a pending
\* ApprovalRequest requested by the negotiator, arms exactly one timer, sets the
\* negotiator to waiting, creates no tool call and returns without starting the
\* next step.
C23_ApprovalStepOpensRequest ==
  [][ \A t \in Threads :
        OpenApproval(t)
        => /\ pendingApproval' = [status |-> "pending", requestedBy |-> "negotiator"]
           /\ timeoutRef' = "armed"
           /\ ArmedTimers' = ArmedTimers + 1
           /\ state'.agents["negotiator"].status = "waiting"
           /\ state'.toolCalls = state.toolCalls
           /\ state'.currentStep = 4
           /\ threads'[t].pc = "done"
           /\ \A u \in Threads : ~Invokes(u) ]_vars

\* the request has just been opened after three logged invocations
C23_Witness ==
  /\ pendingApproval = [status |-> "pending", requestedBy |-> "negotiator"]
  /\ timeoutRef = "armed"
  /\ orphanTimers = 0
  /\ state.agents["negotiator"].status = "waiting"
  /\ state.currentStep = 4
  /\ Len(state.toolCalls) = 3
  /\ \A t \in Threads : threads[t].pc \in {"none", "done"}

C25_TimeToResolutionIsElapsed ==
  [][ Completes => /\ ~state'.isRunning
                   /\ state'.metrics.timeToResolution = now - state.startTime ]_vars

\* the entries of the log settled with the fallback result
FallbackEntries ==
  {k \in 1..Len(state.toolCalls) : state.toolCalls[k].result.kind = "mock"}

\* the fallback table answers for the tool of each of the six steps, and a
\* logged fallback result is the table's result for the entry's tool, whatever
\* the state of the run
FallbackTotalAndPure ==
  /\ \A i \in 0..(TotalSteps - 1) : getMockResultForTool(Step(i).tool).kind = "mock"
  /\ \A k \in FallbackEntries :
       state.toolCalls[k].result = getMockResultForTool(state.toolCalls[k].toolName)

\* C26: the fallback table is a pure, total function of the tool name, and the
\* result it returns carries a confidence in [0,1].
C26_FallbackCarriesConfidence ==
  /\ FallbackTotalAndPure
  /\ \A k \in FallbackEntries : state.toolCalls[k].result.confidence \in 0..100

\* C26 (amended): the fallback table is a pure, total function of the tool name;
\* its result carries a confidence in [0,1] for analyze_satellite_imagery and
\* run_monte_carlo only, and no confidence field for the other tools.
C26_FallbackConfidenceWhereDefined ==
  /\ FallbackTotalAndPure
  /\ \A k \in FallbackEntries :
       IF state.toolCalls[k].toolName \in {"analyze_satellite_imagery", "run_monte_carlo"}
       THEN state.toolCalls[k].result.confidence \in 0..100
       ELSE state.toolCalls[k].result.confidence = Undefined

\* the fallback results of a tool with a confidence and of one without are logged
C26_Witness ==
  /\ Len(state.toolCalls) >= 3
  /\ state.toolCalls[1].result = [kind |-> "mock", confidence |-> 89]
  /\ state.toolCalls[3].toolName = "negotiate_terms"
  /\ state.toolCalls[3].result = [kind |-> "mock", confidence |-> Undefined]

\* C27: handleApproval called when there is no ApprovalRequest (before the
\* approval step, after a decision, after a reset) changes nothing: the run
\* flag, the step position, the agents, the tool calls, the metrics and the
\* timer stay as they are and no step is executed.
C27_DecideWithoutRequestIsNoOp ==
  [][ (Decided /\ pendingApproval = NULL)
      => /\ state' = state
         /\ timeoutRef' = timeoutRef
         /\ orphanTimers' = orphanTimers
         /\ threads' = threads ]_vars

\* C28: whenever no ApprovalRequest is pending, no approval timer is armed.
C28_NoTimerWithoutPendingRequest ==
  pendingApproval.status # "pending" => ArmedTimers = 0

\* C29: while an ApprovalRequest is pending the run is running, the negotiator
\* is waiting, no agent is processing, no tool call is pending and the step
\* position is the approval step (currentStep = 4).
C29_PendingRequestState ==
  pendingApproval.status = "pending"
  => /\ state.isRunning
     /\ state.agents["negotiator"].status = "waiting"
     /\ \A a \in AgentIds : state.agents[a].status # "processing"
     /\ \A k \in 1..Len(state.toolCalls) : state.toolCalls[k].status # "pending"
     /\ state.currentStep = 4

\* the 1-based index of the step whose tool is toolName
StepNumber(toolName) == CHOOSE n \in 1..TotalSteps : WORKFLOW_STEPS[n].tool = toolName

\* C30: currentStep is always within 0..totalSteps, never decreases between a
\* startWorkflow and the end of that run, and is the 1-based index of the step
\* started last.
C30_StepPosition ==
  [][ /\ state'.currentStep \in 0..TotalSteps
      /\ (state.isRunning /\ state'.isRunning /\ ~StartWorkflow)
           => state'.currentStep >= state.currentStep
      /\ Appended => state'.currentStep = StepNumber(AppendedTool)
      /\ (\E t \in Threads : OpenApproval(t)) => state'.currentStep = 4 ]_vars

\* the tools of the non-approval steps, in step order
InvokedTools ==
  << "analyze_satellite_imagery", "run_monte_carlo", "negotiate_terms",
     "reroute_shipments", "log_to_blockchain" >>

\* C31: the log of a run never holds more than five entries nor an entry for
\* request_human_approval, and when the run is completed it holds exactly five
\* tool calls, one per non-approval step in step order, all with status success.
C31_CompletedRunLog ==
  [][ /\ Len(state'.toolCalls) <= 5
      /\ \A k \in 1..Len(state'.toolCalls) :
           state'.toolCalls[k].toolName # "request_human_approval"
      /\ Completes =>
           /\ [k \in 1..Len(state'.toolCalls) |-> state'.toolCalls[k].toolName] = InvokedTools
           /\ \A k \in 1..Len(state'.toolCalls) : state'.toolCalls[k].status = "success" ]_vars

\* visible of RiskSummaryReport
ReportVisible ==
  /\ \A a \in AgentIds : state.agents[a].status = "success"
  /\ ~state.isRunning

\* C32: the risk summary report becomes visible only by the completion of a run
\* that has executed all six steps with an approved decision; it is not visible
\* in the idle state, while the run is running, after a rejection or after an
\* approval timeout.
C32_ReportOnlyAfterApprovedCompletion ==
  [][ /\ (ReportVisible' /\ ~ReportVisible) => (Completes /\ Completed')
      /\ (IdleState' \/ state'.isRunning) => ~ReportVisible'
      /\ toast' \in {"Approval Denied", "Approval Timeout"} => ~ReportVisible' ]_vars

\* C33: in the workflow store a workflow's status is completed only if every
\* one of its steps has status completed, whatever the order and repetition of
\* the execute-step requests.
C33_CompletedImpliesAllSteps ==
  workflow.status = "completed" => \A i \in StepIndices : workflow.steps[i] = "completed"

\* C34: in the workflow store completed and failed are terminal: an execute-step
\* request that arrives once the workflow is completed or failed changes neither
\* the status of the workflow nor the status of any step.
C34_TerminalStatusesAreFinal ==
  [][ (workflow.status \in {"completed", "failed"}
       /\ \E step_index \in RequestIndices : ExecuteWorkflowStep(step_index))
      => workflow' = workflow ]_vars

\* the response of orchestrateWorkflow is built in this step
Responds == orchestration'.pc = "responded" /\ orchestration' # orchestration

\* C35: orchestrateWorkflow processes the agent tasks in request order, one at
\* a time, and ends with exactly one result per task in the same order; a
\* failing task is recorded as a failed result and the later tasks still run;
\* overall_success is true exactly when at least 80% of the tasks succeeded.
C35_OrchestrateInOrder ==
  [][ /\ \A outcome \in TaskOutcomes :
           AgentTaskSettle(outcome)
           => /\ Len(orchestration'.results) = Len(orchestration.results) + 1
              /\ orchestration'.results[Len(orchestration'.results)] =
                   [success |-> (outcome = "completed"),
                    task_id |-> orchestration.agents[Len(orchestration.results) + 1]]
              /\ (outcome = "thrown" /\ Len(orchestration'.results) < Len(orchestration.agents))
                   => orchestration'.pc = "awaitTask"
      /\ Responds =>
           LET o == orchestration'
           IN  /\ Len(o.results) = Len(o.agents)
               /\ \A k \in 1..Len(o.agents) : o.results[k].task_id = o.agents[k]
               /\ o.overall_success <=> (10 * successfulTasks(o.results) >= 8 * Len(o.agents)) ]_vars

\* the conversation alternates and a user message is last exactly while loading
ChatAlternates ==
  /\ \A k \in 1..(Len(chat.messages) - 1) : chat.messages[k].type # chat.messages[k + 1].type
  /\ chat.isLoading <=> (Len(chat.messages) > 0 /\ chat.messages[Len(chat.messages)].type = "user")

\* C36: in the chat assistant sendMessage is ignored while a request is loading
\* or the input is blank; every accepted user message is followed by exactly
\* one agent reply whether the call succeeds, returns an error or throws, so
\* user and agent messages alternate, and the loading flag always returns to
\* false.
C36_ChatOneReplyPerMessage ==
  /\ []ChatAlternates
  /\ [][ /\ (SendMessage /\ (chat.isLoading \/ trim(chat.inputValue) = "")) => chat' = chat
         /\ (SendMessage /\ chat' # chat)
              => /\ Len(chat'.messages) = Len(chat.messages) + 1
                 /\ chat'.messages[Len(chat'.messages)].type = "user"
                 /\ chat'.isLoading
         /\ \A outcome \in ChatOutcomes :
              ChatSettle(outcome)
              => /\ Len(chat'.messages) = Len(chat.messages) + 1
                 /\ chat'.messages[Len(chat'.messages)].type = "agent"
                 /\ SubSeq(chat'.messages, 1, Len(chat.messages)) = chat.messages
                 /\ ~chat'.isLoading ]_vars
  /\ (chat.isLoading ~> ~chat.isLoading)

\* two messages were answered, one of them by the fallback, and nothing is loading
C36_Witness ==
  /\ Len(chat.messages) = 5
  /\ ~chat.isLoading
  /\ chat.messages[3].content = "fallback"
  /\ chat.messages[5].content = "analysis"

====
